---- MODULE Spec2Model ----
(***************************************************************************)
(* A model of rdflib's Hextuples parser (rdflib/plugins/parsers/hext.py):  *)
(* HextuplesParser.parse, _load_json_line and _parse_hextuple.             *)
(*                                                                         *)
(* A Python str is a sequence of one-character strings, so that            *)
(* str.startswith and str.replace are computed, not assumed.  A JSON       *)
(* element is a record: None, or Str(s) for the string s.  Elements of     *)
(* other JSON types (numbers, booleans, nested arrays) are outside the     *)
(* wire format and are not modelled.                                       *)
(***************************************************************************)
EXTENDS Naturals, Sequences, FiniteSets

(***************************************************************************)
(* Bounds of the model.                                                    *)
(***************************************************************************)
\* longest subject / value string of SpecLine
MaxStrLen == 3
\* longest JSON array of SpecLine
MaxArity == 7
\* most lines in a source of Spec
MaxLines == 3

(***************************************************************************)
(* Python values.                                                          *)
(***************************************************************************)
None == [null |-> TRUE, s |-> <<>>]
Str(s) == [null |-> FALSE, s |-> s]

\* str.startswith(prefix)
StartsWith(s, prefix) ==
    /\ Len(s) >= Len(prefix)
    /\ SubSeq(s, 1, Len(prefix)) = prefix

\* str.replace(old, ""): every non-overlapping occurrence of old, scanning
\* from the left, is removed
RECURSIVE Replace(_, _)
Replace(s, old) ==
    IF Len(s) < Len(old) THEN s
    ELSE IF SubSeq(s, 1, Len(old)) = old
         THEN Replace(SubSeq(s, Len(old) + 1, Len(s)), old)
         ELSE <<Head(s)>> \o Replace(Tail(s), old)

globalId == <<"g", "l", "o", "b", "a", "l", "I", "d">>
localId == <<"l", "o", "c", "a", "l", "I", "d">>

(***************************************************************************)
(* rdflib.term and rdflib.graph, which hext.py imports: terms are tagged   *)
(* records, a store is the sequence of the add calls made on it.           *)
(***************************************************************************)
URIRef(value) ==
    [kind |-> "URIRef", value |-> value, datatype |-> None, lang |-> None]

BNode(value) ==
    [kind |-> "BNode", value |-> value, datatype |-> None, lang |-> None]

\* Literal(value, datatype=datatype, lang=lang)
Literal(value, datatype, lang) ==
    [kind |-> "Literal", value |-> value, datatype |-> datatype, lang |-> lang]

\* the Graph object with the given identifier
Graph(identifier) == [kind |-> "Graph", identifier |-> identifier]

NoContext == [kind |-> "NoContext"]

\* ConjunctiveGraph.add: a quad goes to its own context, a triple to the
\* default context
Add(st, dflt, triple_or_quad) ==
    Append(st, [triple |-> SubSeq(triple_or_quad, 1, 3),
                context |-> IF Len(triple_or_quad) = 4
                            THEN triple_or_quad[4] ELSE dflt])

(***************************************************************************)
(* A line of the source: malformed JSON (a blank line included), or a JSON *)
(* array of elements.                                                      *)
(***************************************************************************)
Blank == [json |-> "blank", elems |-> <<>>]
Malformed == [json |-> "malformed", elems |-> <<>>]
Array(elems) == [json |-> "array", elems |-> elems]

\* tup[i], with Python's 0-based index
At(tup, i) == tup[i + 1]

(***************************************************************************)
(* _load_json_line                                                         *)
(***************************************************************************)
Raise(e) == [err |-> e, ret |-> <<>>]
Return(r) == [err |-> "none", ret |-> r]

\* ret2 = [x if x != "" else None for x in ret1]
EmptyToNone(ret1) ==
    [k \in 1..Len(ret1) |-> IF ret1[k] = Str(<<>>) THEN None ELSE ret1[k]]

\* the decoder without the exception for the value: every "" becomes None
load_json_line_all(line) ==
    IF line.json # "array" THEN Raise("JSONDecodeError")
    ELSE IF Len(line.elems) < 3 THEN Raise("IndexError")
         ELSE Return(EmptyToNone(line.elems))

load_json_line(line) ==
    IF line.json # "array" THEN Raise("JSONDecodeError")
    ELSE LET ret1 == line.elems
             ret2 == EmptyToNone(ret1)
         IN  IF Len(ret1) < 3 THEN Raise("IndexError")
             ELSE IF At(ret1, 2) = Str(<<>>)
                  THEN Return([ret2 EXCEPT ![3] = Str(<<>>)])
                  ELSE Return(ret2)

(***************************************************************************)
(* _parse_hextuple                                                         *)
(***************************************************************************)
\* the check without the datatype: tup[3] is not looked at
RequiredCheckNoDatatype(tup) ==
    LET bad == {i \in 0..2 : i >= Len(tup) \/ At(tup, i) = None}
    IN  IF bad = {} THEN (IF Len(tup) < 4 THEN "IndexError" ELSE "none")
        ELSE LET first == CHOOSE i \in bad : \A j \in bad : i <= j
             IN  IF first >= Len(tup) THEN "IndexError" ELSE "ValueError"

\* tup[0] is None or tup[1] is None or tup[2] is None or tup[3] is None,
\* evaluated left to right: the first index that is missing or None decides
RequiredCheck(tup) ==
    LET bad == {i \in 0..3 : i >= Len(tup) \/ At(tup, i) = None}
    IN  IF bad = {} THEN "none"
        ELSE LET first == CHOOSE i \in bad : \A j \in bad : i <= j
             IN  IF first >= Len(tup) THEN "IndexError" ELSE "ValueError"

\* 1 - subject
Subject(tup) ==
    IF StartsWith(At(tup, 0).s, <<"_">>)
    THEN BNode(Replace(At(tup, 0).s, <<"_", ":">>))
    ELSE URIRef(At(tup, 0).s)

\* 2 - predicate
Predicate(tup) == URIRef(At(tup, 1).s)

\* whether the object branch reads tup[4]
ObjectReadsLang(tup) ==
    At(tup, 3).s # globalId /\ At(tup, 3).s # localId

\* the literal branch passing the datatype along with the language
ObjectBoth(tup) ==
    IF At(tup, 3).s = globalId THEN URIRef(At(tup, 2).s)
    ELSE IF At(tup, 3).s = localId
         THEN BNode(Replace(At(tup, 2).s, <<"_", ":">>))
         ELSE Literal(At(tup, 2).s, URIRef(At(tup, 3).s), At(tup, 4))

\* 3 - value
Object(tup) ==
    IF At(tup, 3).s = globalId THEN URIRef(At(tup, 2).s)
    ELSE IF At(tup, 3).s = localId
         THEN BNode(Replace(At(tup, 2).s, <<"_", ":">>))
         ELSE IF At(tup, 4) = None
              THEN Literal(At(tup, 2).s, URIRef(At(tup, 3).s), None)
              ELSE Literal(At(tup, 2).s, None, At(tup, 4))

\* the context dropped: always the three-element call
StatementNoContext(tup) == <<Subject(tup), Predicate(tup), Object(tup)>>

\* 6 - context: the argument of cg.add
Statement(tup) ==
    IF At(tup, 5) # None
    THEN <<Subject(tup), Predicate(tup), Object(tup), URIRef(At(tup, 5).s)>>
    ELSE <<Subject(tup), Predicate(tup), Object(tup)>>

\* a statement already added is not added again
parse_hextuple_dedup(st, dflt, tup) ==
    IF RequiredCheck(tup) # "none"
    THEN [err |-> RequiredCheck(tup), store |-> st]
    ELSE IF Len(tup) < 6
         THEN [err |-> "IndexError", store |-> st]
         ELSE IF \E k \in 1..Len(st) : <<st[k]>> = Add(<<>>, dflt, Statement(tup))
              THEN [err |-> "none", store |-> st]
              ELSE [err |-> "none", store |-> Add(st, dflt, Statement(tup))]

\* the whole call: the exception raised ("none" when it returns) and the
\* store after it
parse_hextuple(st, dflt, tup) ==
    IF RequiredCheck(tup) # "none"
    THEN [err |-> RequiredCheck(tup), store |-> st]
    ELSE IF ObjectReadsLang(tup) /\ Len(tup) < 5
         THEN [err |-> "IndexError", store |-> st]
         ELSE IF Len(tup) < 6
              THEN [err |-> "IndexError", store |-> st]
              ELSE [err |-> "none", store |-> Add(st, dflt, Statement(tup))]

(***************************************************************************)
(* parse                                                                   *)
(***************************************************************************)
VARIABLES
    source,           \* the InputSource: its kind and its text, line by line
    graph,            \* the target Graph: identifier, store.context_aware
    kwargs,           \* the keyword arguments: encoding
    pc,               \* where parse is
    lines,            \* the lines the loop iterates over
    idx,              \* the 1-based number of the line the loop is at
    tup,              \* the record _load_json_line returned for that line
    store,            \* graph.store: the add calls made, in order
    default_context,  \* cg.default_context
    err,              \* the exception parse ended with
    warned            \* whether warnings.warn was called

vars == <<source, graph, kwargs, pc, lines, idx, tup, store,
          default_context, err, warned>>

inputs == <<source, graph, kwargs>>

\* leading and trailing blank lines removed: str.strip() on the whole text
RECURSIVE StripLeading(_)
StripLeading(text) ==
    IF text # <<>> /\ Head(text) = Blank THEN StripLeading(Tail(text))
    ELSE text

RECURSIVE StripTrailing(_)
StripTrailing(text) ==
    IF text # <<>> /\ text[Len(text)] = Blank
    THEN StripTrailing(SubSeq(text, 1, Len(text) - 1))
    ELSE text

\* the lines each branch of parse iterates over
SourceLines(src) ==
    IF src.kind = "file" THEN src.text
    ELSE IF src.kind = "data" THEN StripTrailing(StripLeading(src.text))
    ELSE <<>>

\* parse without the assertion on the store
ParseBeginNoAssert ==
    /\ pc = "start"
    /\ warned' = (kwargs.encoding \notin {"None", "utf-8"})
    /\ pc' = "loop"
    /\ default_context' = Graph(graph.identifier)
    /\ lines' = SourceLines(source)
    /\ UNCHANGED <<inputs, idx, tup, store, err>>

\* the encoding warning, the context-aware assertion, the ConjunctiveGraph
\* and the choice of the loop
ParseBegin ==
    /\ pc = "start"
    /\ warned' = (kwargs.encoding \notin {"None", "utf-8"})
    /\ IF ~graph.context_aware
       THEN /\ pc' = "failed"
            /\ err' = "AssertionError"
            /\ UNCHANGED <<lines, default_context>>
       ELSE /\ pc' = "loop"
            /\ default_context' = Graph(graph.identifier)
            /\ lines' = SourceLines(source)
            /\ UNCHANGED err
    /\ UNCHANGED <<inputs, idx, tup, store>>

\* self._load_json_line(l), the argument of the call in the loop body
LoadJsonLine ==
    /\ pc = "loop"
    /\ idx <= Len(lines)
    /\ LET r == load_json_line(lines[idx])
       IN  IF r.err # "none"
           THEN /\ pc' = "failed"
                /\ err' = r.err
                /\ UNCHANGED tup
           ELSE /\ pc' = "loaded"
                /\ tup' = r.ret
                /\ UNCHANGED err
    /\ UNCHANGED <<inputs, lines, idx, store, default_context, warned>>

\* a record that fails is skipped and the loop goes on
ParseHextupleSkip ==
    /\ pc = "loaded"
    /\ LET r == parse_hextuple(store, default_context, tup)
       IN  /\ pc' = "loop"
           /\ store' = r.store
           /\ idx' = idx + 1
           /\ tup' = <<>>
           /\ UNCHANGED err
    /\ UNCHANGED <<inputs, lines, default_context, warned>>

\* self._parse_hextuple(cg, ...), then the next iteration
ParseHextuple ==
    /\ pc = "loaded"
    /\ LET r == parse_hextuple(store, default_context, tup)
       IN  IF r.err # "none"
           THEN /\ pc' = "failed"
                /\ err' = r.err
                /\ UNCHANGED <<idx, store, tup>>
           ELSE /\ pc' = "loop"
                /\ store' = r.store
                /\ idx' = idx + 1
                /\ tup' = <<>>
                /\ UNCHANGED err
    /\ UNCHANGED <<inputs, lines, default_context, warned>>

\* the loop is exhausted (or no branch applies): parse returns None
ParseEnd ==
    /\ pc = "loop"
    /\ idx > Len(lines)
    /\ pc' = "done"
    /\ UNCHANGED <<inputs, lines, idx, tup, store, default_context, err, warned>>

Next == ParseBegin \/ LoadJsonLine \/ ParseHextuple \/ ParseEnd

(***************************************************************************)
(* Inputs.                                                                 *)
(***************************************************************************)
Alphabet == {"_", ":", "b"}

RECURSIVE StrsOfLen(_)
StrsOfLen(n) ==
    IF n = 0 THEN {<<>>}
    ELSE {<<c>> \o s : c \in Alphabet, s \in StrsOfLen(n - 1)}

Strs(n) == UNION {StrsOfLen(k) : k \in 0..n}

Elems(S) == {None} \cup {Str(s) : s \in S}

LongElems == Elems(Strs(MaxStrLen))
ShortElems == Elems({<<>>, <<"b">>, <<"_", ":">>, <<"_", "b">>})
Predicates == Elems({<<>>, <<"p">>})
Datatypes == Elems({<<>>, globalId, localId, <<"d">>})
Languages == Elems({<<>>, <<"e", "n">>})
Graphs == Elems({<<>>, <<"g">>})
Extras == Elems({<<"x">>})

\* the set a JSON array's k-th element is drawn from
Field(k) ==
    CASE k = 1 -> ShortElems
      [] k = 2 -> Predicates
      [] k = 3 -> ShortElems
      [] k = 4 -> Datatypes
      [] k = 5 -> Languages
      [] k = 6 -> Graphs
      [] OTHER -> Extras

RECURSIVE ArraysOfLen(_)
ArraysOfLen(n) ==
    IF n = 0 THEN {<<>>}
    ELSE {Append(a, e) : a \in ArraysOfLen(n - 1), e \in Field(n)}

\* arrays of up to MaxArity elements that do not have exactly six
OtherArrays == UNION {ArraysOfLen(n) : n \in (0..MaxArity) \ {6}}

Identifiers == {<<"G">>, <<"H">>}
Encodings == {"None", "utf-8", "latin-1"}

\* the lines of a source of Spec
SampleLines ==
    { Array(<<Str(<<"b">>), Str(<<"p">>), Str(<<"v">>), Str(<<"d">>),
              Str(<<>>), Str(<<>>)>>),
      Array(<<Str(<<"_", ":", "b">>), Str(<<"p">>), Str(<<"_", ":", "c">>),
              Str(localId), None, Str(<<"g">>)>>),
      Array(<<Str(<<>>), Str(<<"p">>), Str(<<>>), Str(<<"d">>),
              Str(<<>>), Str(<<>>)>>),
      Array(<<Str(<<"b">>), Str(<<"p">>), Str(<<"v">>), Str(<<"d">>),
              Str(<<"e", "n">>)>>),
      Array(<<Str(<<"b">>), Str(<<"p">>), Str(<<"v">>), Str(globalId),
              None, None, Str(<<"x">>)>>),
      Malformed,
      Blank }

InitState ==
    /\ pc = "start"
    /\ lines = <<>>
    /\ idx = 1
    /\ tup = <<>>
    /\ store = <<>>
    /\ default_context = NoContext
    /\ err = "none"
    /\ warned = FALSE

Init ==
    /\ \E n \in 0..MaxLines : \E text \in [1..n -> SampleLines] :
          \E kind \in {"file", "data", "other"} :
             source = [kind |-> kind, text |-> text]
    /\ graph \in [identifier : {<<"G">>}, context_aware : BOOLEAN]
    /\ kwargs \in [encoding : Encodings]
    /\ InitState

Spec == Init /\ [][Next]_vars

\* one line through the decoder, the validator, the resolver and the emitter:
\* malformed, an array that is not of six elements, or a six-element array in
\* which the subject or the value is any string up to MaxStrLen (the other
\* one of ShortElems)
InitLine ==
    /\ \/ \E line \in {Blank, Malformed} \cup {Array(a) : a \in OtherArrays} :
             source = [kind |-> "file", text |-> <<line>>]
       \/ \E s \in LongElems, v \in ShortElems, p \in Predicates,
             d \in Datatypes, l \in Languages, g \in Graphs :
             source = [kind |-> "file", text |-> <<Array(<<s, p, v, d, l, g>>)>>]
       \/ \E s \in ShortElems, v \in LongElems, p \in Predicates,
             d \in Datatypes, l \in Languages, g \in Graphs :
             source = [kind |-> "file", text |-> <<Array(<<s, p, v, d, l, g>>)>>]
    /\ graph \in [identifier : Identifiers, context_aware : BOOLEAN]
    /\ kwargs \in [encoding : {"None"}]
    /\ InitState

SpecLine == InitLine /\ [][Next]_vars

(***************************************************************************)
(* The properties.  They are stated over the lines the loop iterates over  *)
(* (lines) and the add calls made (store); the k-th line is read from the  *)
(* raw JSON elements, not from what the decoder returned.                  *)
(***************************************************************************)
Six(line) == line.json = "array" /\ Len(line.elems) = 6

\* null after the normalization of a position other than the value
Absent(e) == e = None \/ e = Str(<<>>)

Field0(line) == line.elems[1]
Field1(line) == line.elems[2]
Field2(line) == line.elems[3]
Field3(line) == line.elems[4]
Field4(line) == line.elems[5]
Field5(line) == line.elems[6]

RequiredAbsent(line) ==
    \/ Absent(Field0(line))
    \/ Absent(Field1(line))
    \/ Field2(line) = None
    \/ Absent(Field3(line))

\* the loop is done with line i: it was inserted, or parse failed at it
Handled(i) == idx > i \/ (idx = i /\ pc = "failed")

\* parse ended at line i with the exception e
FailedAt(i, e) == pc = "failed" /\ idx = i /\ err = e

\* the exception the code raises for a line ("none" when it inserts it)
LineError(line) ==
    LET r == load_json_line(line)
    IN  IF r.err # "none" THEN r.err
        ELSE parse_hextuple(<<>>, default_context, r.ret).err

\* the add call the code makes for a line it accepts
LineAdd(line) ==
    parse_hextuple(<<>>, default_context, load_json_line(line).ret).store[1]

\* C1: a line whose JSON array does not have exactly six elements is never
\* inserted: parse ends in an error at that line, so it neither goes past it
\* nor makes an add call for it, and it does not return normally.
C1_OnlySixElementArraysAreInserted ==
    \A i \in 1..Len(lines) :
        (lines[i].json = "array" /\ Len(lines[i].elems) # 6) =>
            /\ idx <= i
            /\ Len(store) < i
            /\ pc # "done"

\* C2: the subject of every inserted six-field record is BNode(rest) exactly
\* when the subject string is "_:" followed by rest, and IRI(string) otherwise.
C2_SubjectBlankNodeIffPrefix ==
    \A i \in 1..Len(store) :
        i <= Len(lines) /\ Six(lines[i]) =>
            LET sub == Field0(lines[i]).s
            IN  store[i].triple[1] =
                    IF StartsWith(sub, <<"_", ":">>)
                    THEN BNode(SubSeq(sub, 3, Len(sub)))
                    ELSE URIRef(sub)

\* C3: the object of every inserted six-field record is IRI(value) for datatype
\* "globalId"; BNode(value without a leading "_:") for "localId", later "_:"
\* kept; a Literal over value for any other datatype.
C3_ObjectDispatch ==
    \A i \in 1..Len(store) :
        i <= Len(lines) /\ Six(lines[i]) =>
            LET value == Field2(lines[i]).s
                datatype == Field3(lines[i]).s
                o == store[i].triple[3]
            IN  IF datatype = globalId THEN o = URIRef(value)
                ELSE IF datatype = localId
                     THEN o = BNode(IF StartsWith(value, <<"_", ":">>)
                                    THEN SubSeq(value, 3, Len(value))
                                    ELSE value)
                     ELSE o.kind = "Literal" /\ o.value = value

\* C4: a six-field record ends parse with the validation error (ValueError),
\* nothing inserted for it, exactly when its subject, predicate, value or
\* datatype is null after normalization; otherwise, null language and graph
\* included, it is inserted.
C4_ValidationIffRequiredNull ==
    \A i \in 1..Len(lines) :
        Six(lines[i]) /\ Handled(i) =>
            /\ (FailedAt(i, "ValueError") /\ Len(store) = i - 1)
                   <=> RequiredAbsent(lines[i])
            /\ ~RequiredAbsent(lines[i]) => (idx > i /\ Len(store) >= i)

\* a record failing validation only because its datatype is the empty string,
\* language and graph null
C4_Witness ==
    /\ FailedAt(1, "ValueError")
    /\ store = <<>>
    /\ lines = <<Array(<<Str(<<"b">>), Str(<<"p">>), Str(<<"b">>), Str(<<>>),
                         None, None>>)>>

\* C5: for a six-element line the decoder returns None at positions 0, 1, 3,
\* 4, 5 where the element is "" and the element otherwise, and position 2 as
\* parsed; a record with value "" and non-empty subject, predicate and
\* datatype passes validation and is inserted.
C5_EmptyStringNormalization ==
    \A i \in 1..Len(lines) :
        Six(lines[i]) =>
            /\ (idx = i /\ pc = "loaded") =>
                   tup = [k \in 1..6 |->
                             IF k # 3 /\ lines[i].elems[k] = Str(<<>>)
                             THEN None ELSE lines[i].elems[k]]
            /\ (idx = i /\ pc = "failed") => tup # <<>>
            /\ ( /\ Handled(i)
                 /\ Field2(lines[i]) = Str(<<>>)
                 /\ ~Absent(Field0(lines[i]))
                 /\ ~Absent(Field1(lines[i]))
                 /\ ~Absent(Field3(lines[i])) ) =>
                   (idx > i /\ Len(store) >= i /\ store[i].triple[3].value = <<>>)

\* the decoder's record for ["", "p", "", "d", "", ""]
C5_Witness ==
    /\ pc = "loaded"
    /\ lines = <<Array(<<Str(<<>>), Str(<<"p">>), Str(<<>>), Str(<<"d">>),
                         Str(<<>>), Str(<<>>)>>)>>
    /\ tup = <<None, Str(<<"p">>), Str(<<>>), Str(<<"d">>), None, None>>

\* C6: parse never goes past a line that fails to decode or to validate and
\* never returns normally when there is one; when it ends at the first such
\* line k, it ends with that line's error and the add calls made are exactly
\* those of lines 1 to k-1.
C6_FailFast ==
    LET bad == {k \in 1..Len(lines) : LineError(lines[k]) # "none"}
    IN  bad # {} =>
            LET k == CHOOSE k \in bad : \A j \in bad : k <= j
            IN  /\ idx <= k
                /\ Len(store) <= k - 1
                /\ pc # "done"
                /\ pc = "failed" =>
                       /\ idx = k
                       /\ err = LineError(lines[k])
                       /\ store = [j \in 1..(k - 1) |-> LineAdd(lines[j])]

\* parse ended at a bad second line, after one insertion, a good third line
\* left unread
C6_Witness ==
    /\ pc = "failed"
    /\ idx = 2
    /\ Len(lines) = 3
    /\ err = "ValueError"
    /\ LineError(lines[3]) = "none"
    /\ Len(store) = 1

\* C7: for a stream of valid lines, the add calls made so far are those of
\* the lines before the current one, one per line and in line order, equal
\* lines included; a line is decoded only when every line before it has been
\* inserted; at the end there are as many add calls as lines.
C7_OneInsertionPerLineInOrder ==
    (pc # "start" /\ \A j \in 1..Len(lines) : LineError(lines[j]) = "none") =>
        /\ Len(store) = idx - 1
        /\ \A i \in 1..Len(store) : store[i] = LineAdd(lines[i])
        /\ pc = "loaded" => tup = load_json_line(lines[idx]).ret
        /\ pc = "done" => Len(store) = Len(lines)

\* three valid lines, the first and the third equal, parsed to the end
C7_Witness ==
    /\ pc = "done"
    /\ Len(lines) = 3
    /\ lines[1] = lines[3]
    /\ lines[1] # lines[2]
    /\ Len(store) = 3
    /\ store[1] = store[3]

\* C8: with a store that is not context-aware parse ends in the assertion
\* error with no line read or decoded and the store unchanged, whatever the
\* source and the encoding.
C8_NotContextAwareFailsFirst ==
    ~graph.context_aware =>
        /\ pc \in {"start", "failed"}
        /\ pc = "failed" => err = "AssertionError"
        /\ lines = <<>>
        /\ idx = 1
        /\ tup = <<>>
        /\ store = <<>>

\* the assertion failing on a source whose first line is malformed, with a
\* foreign encoding
C8_Witness ==
    /\ ~graph.context_aware
    /\ pc = "failed"
    /\ err = "AssertionError"
    /\ Len(source.text) = 2
    /\ source.text[1] = Malformed
    /\ LineError(source.text[2]) = "none"
    /\ kwargs.encoding = "latin-1"
    /\ warned

\* C9: an inserted six-field record goes to the context IRI(graph) when its
\* graph field is non-null after normalization, and to the default context,
\* the graph given to parse, when it is null or "".
C9_ContextRouting ==
    \A i \in 1..Len(store) :
        i <= Len(lines) /\ Six(lines[i]) =>
            store[i].context =
                IF Absent(Field5(lines[i])) THEN Graph(graph.identifier)
                ELSE URIRef(Field5(lines[i]).s)

\* a record whose graph is "" inserted into the caller's graph H
C9_Witness ==
    /\ Len(store) = 1
    /\ Six(lines[1])
    /\ Field5(lines[1]) = Str(<<>>)
    /\ graph.identifier = <<"H">>
    /\ store[1].context = Graph(<<"H">>)

\* C10: for an inserted six-field record whose datatype is neither "globalId"
\* nor "localId" the object is a Literal over value with the language and no
\* datatype when language is non-null, and with IRI(datatype) and no language
\* when language is null: never both.
C10_LiteralLangXorDatatype ==
    \A i \in 1..Len(store) :
        ( /\ i <= Len(lines)
          /\ Six(lines[i])
          /\ Field3(lines[i]).s \notin {globalId, localId} ) =>
            LET o == store[i].triple[3]
                language == Field4(lines[i])
            IN  /\ o.kind = "Literal"
                /\ o.value = Field2(lines[i]).s
                /\ (o.lang = None) # (o.datatype = None)
                /\ IF Absent(language)
                   THEN o.lang = None /\ o.datatype = URIRef(Field3(lines[i]).s)
                   ELSE o.lang = language /\ o.datatype = None

\* a record with both a datatype and a language: the language wins
C10_Witness ==
    /\ Len(store) = 1
    /\ Six(lines[1])
    /\ Field3(lines[1]) = Str(<<"d">>)
    /\ Field4(lines[1]) = Str(<<"e", "n">>)
    /\ store[1].triple[3] = Literal(Field2(lines[1]).s, None, Str(<<"e", "n">>))

====
